---- MODULE Spec2Model ----
(***************************************************************************)
(* Practice App (main.py, edit_window.py): a list of practice records held *)
(* in MainWindow.data, written through to data.json after every mutation   *)
(* and re-rendered into a sortable QTableWidget.                           *)
(*                                                                         *)
(* Text is modelled as a sequence of code points, a date string            *)
(* 'YYYY-MM-DD' as the triple <<year, month, day>>, None as the empty      *)
(* sequence, and a Python object reference as the id of the record.        *)
(***************************************************************************)
EXTENDS FiniteSets, Integers, Sequences, TLC

\* Bounds of the model.
MaxRecords == 2      \* records held at once
MaxCount == 2        \* practice sessions counted per record
MaxDay == 1          \* days the clock can advance

None == <<>>
Infinity == 1000000

\* The texts the user types into the name field of the add dialog:
\* "", " ", "a", "B", " a ".
NameInputs == {<<>>, <<32>>, <<97>>, <<66>>, <<32, 97, 32>>}

Days == 0..MaxDay
Ids == 1..MaxRecords

----------------------------------------------------------------------------
\* Strings

IsSpace(c) == c \in {9, 10, 11, 12, 13, 32}

\* strip() left out.
strip_none(s) == s

\* str.strip()
strip(s) ==
  LET keep == {i \in 1..Len(s) : ~IsSpace(s[i])}
  IN IF keep = {} THEN <<>>
     ELSE LET first == CHOOSE i \in keep : \A j \in keep : i <= j
              last == CHOOSE i \in keep : \A j \in keep : j <= i
          IN SubSeq(s, first, last)

\* str.lower()
lower(s) == [i \in 1..Len(s) |-> IF s[i] >= 65 /\ s[i] <= 90 THEN s[i] + 32 ELSE s[i]]

\* s < t on strings: code point by code point, a proper prefix first.
StrLt(s, t) ==
  \E k \in 1..(Len(t)) :
     /\ \A i \in 1..(k - 1) : i <= Len(s) /\ s[i] = t[i]
     /\ (k > Len(s) \/ (k <= Len(s) /\ s[k] < t[k]))

\* str(n) for a count
IntToStr(n) == IF n < 10 THEN <<48 + n>> ELSE <<48 + (n \div 10), 48 + (n % 10)>>

Yes == <<89, 101, 115>>
No == <<78, 111>>

----------------------------------------------------------------------------
\* Dates: the clock is a day number; day 0 is 2024-12-31, day n is 2025-01-n.

\* datetime.now().strftime('%Y-%m-%d'), QDate.toString('yyyy-MM-dd')
strftime(n) == IF n = 0 THEN <<2024, 12, 31>> ELSE <<2025, 1, n>>

\* datetime.strptime(text, '%Y-%m-%d').date()
strptime(t) == IF t[1] = 2024 THEN 0 ELSE t[3]

----------------------------------------------------------------------------
\* list.sort: a stable sort of s, where lt[i, j] tells whether s[i] is less
\* than s[j] in the strict order sorted by.
StableSort(s, lt) ==
  LET n == Len(s)
      before(j, i) == lt[j, i] \/ (~lt[i, j] /\ j < i)
      pos(i) == 1 + Cardinality({j \in 1..n : j # i /\ before(j, i)})
  IN [k \in 1..n |-> s[CHOOSE i \in 1..n : pos(i) = k]]

----------------------------------------------------------------------------
\* The persisted file: JSON values carry their JSON type.

JString(s) == [t |-> "string", v |-> s]
JNumber(n) == [t |-> "number", v |-> <<n>>]
JBool(b) == [t |-> "bool", v |-> IF b THEN <<1>> ELSE <<0>>]
JNull == [t |-> "null", v |-> <<>>]

\* A dump that writes null for every date.
dump_record_dateless(r) ==
  [name |-> JString(r.name),
   practice_count |-> JNumber(r.practice_count),
   last_practiced |-> JNull,
   isSong |-> JBool(r.isSong),
   was_performed |-> JBool(r.was_performed)]

\* json.dump of one record dict
dump_record(r) ==
  [name |-> JString(r.name),
   practice_count |-> JNumber(r.practice_count),
   last_practiced |-> IF r.last_practiced = None THEN JNull ELSE JString(r.last_practiced),
   isSong |-> JBool(r.isSong),
   was_performed |-> JBool(r.was_performed)]

\* json.load of one value
load_value(j) ==
  CASE j.t = "string" -> j.v
    [] j.t = "number" -> j.v[1]
    [] j.t = "bool" -> (j.v[1] = 1)
    [] OTHER -> None

\* The five keys of a record dict, and the key the model adds to tell one
\* dict object from another.
Fields == {"name", "practice_count", "last_practiced", "isSong", "was_performed"}
Keys == Fields \cup {"id"}

\* json.load of one object, with no key added to the ones the file gives.
load_record_as_read(o, i) ==
  [k \in DOMAIN o \cup {"id"} |-> IF k = "id" THEN i ELSE load_value(o[k])]

\* json.load of one object followed by the defaulting loop of load_data: the
\* dict has the keys of the object, and the two flags, False when the object
\* has none; the dict it builds is a new object, identified by its position.
load_record(o, i) ==
  [k \in DOMAIN o \cup {"id", "was_performed", "isSong"} |->
     IF k = "id" THEN i
     ELSE IF k \in DOMAIN o THEN load_value(o[k])
     ELSE FALSE]

NoFile == [exists |-> FALSE, content |-> <<>>]

\* MainWindow.load_data
load_data(f) ==
  IF f.exists THEN [i \in 1..Len(f.content) |-> load_record(f.content[i], i)] ELSE <<>>

\* json.dump(self.data, file)
json_dump(d) == [exists |-> TRUE, content |-> [i \in 1..Len(d) |-> dump_record(d[i])]]

----------------------------------------------------------------------------
VARIABLES
  data,                  \* MainWindow.data: the list of record dicts
  file,                  \* ~/.PracticeApp/data.json
  displayed_records,     \* MainWindow.displayed_records: references, as ids
  table_rows,            \* the rows of table_widget, top to bottom
  sort_column,           \* header.sortIndicatorSection()
  sort_order,            \* header.sortIndicatorOrder()
  today,                 \* datetime.now().date(), as a day number
  pc,                    \* the modal dialog that is open, "main" when none
  record,                \* the record a dialog or a question is about (0: none)
  clicked_row,           \* the table row of the last name click (0: none)
  is_song_checkbox,      \* the "Is Song" checkbox of the open dialog
  was_performed_checkbox,\* the "Was Performed" checkbox of the open dialog
  steps,                 \* what the last event handler did, in order
  opened                 \* data and file as they were when each open dialog opened

vars == <<data, file, displayed_records, table_rows, sort_column, sort_order, today,
          pc, record, clicked_row, is_song_checkbox, was_performed_checkbox,
          steps, opened>>

\* The part of the state the handlers thread through their statements.
World == [data |-> data, file |-> file, displayed_records |-> displayed_records,
          table_rows |-> table_rows, steps |-> <<>>]

IndexOf(d, id) == CHOOSE i \in 1..Len(d) : d[i].id = id
RecordOf(d, id) == d[IndexOf(d, id)]

\* dict.get(key, default)
get(r, key, default) == IF key \in DOMAIN r THEN r[key] ELSE default

\* dict == dict: the same keys with equal values, whatever the objects.
DictEq(a, b) ==
  /\ a.name = b.name
  /\ a.practice_count = b.practice_count
  /\ a.last_practiced = b.last_practiced
  /\ a.isSong = b.isSong
  /\ a.was_performed = b.was_performed

----------------------------------------------------------------------------
\* Rendering

\* populate_table.last_practiced_key
last_practiced_key(r, now) ==
  IF r.last_practiced = None THEN Infinity ELSE now - strptime(r.last_practiced)

\* populate_table.key_func, as the order it induces for a sort column
key_lt(col, now, a, b) ==
  CASE col = 1 -> a.practice_count < b.practice_count
    [] col = 2 -> last_practiced_key(a, now) < last_practiced_key(b, now)
    [] col = 3 -> (~get(a, "was_performed", FALSE)) /\ get(b, "was_performed", FALSE)
    [] col = 4 -> (~get(a, "isSong", FALSE)) /\ get(b, "isSong", FALSE)
    [] OTHER -> StrLt(lower(a.name), lower(b.name))

\* all_records.sort(key=key_func, reverse=reverse)
sort_records(d, col, ord, now) ==
  LET asc == [i \in 1..Len(d), j \in 1..Len(d) |-> key_lt(col, now, d[i], d[j])]
      desc == [i \in 1..Len(d), j \in 1..Len(d) |-> key_lt(col, now, d[j], d[i])]
  IN IF ord = "Descending" THEN StableSort(d, desc) ELSE StableSort(d, asc)

\* The days until the date, where the days since the date belong.
last_practiced_text_until(r, now) ==
  IF r.last_practiced = None THEN [kind |-> "Never", n |-> 0]
  ELSE IF strptime(r.last_practiced) = now THEN [kind |-> "Today", n |-> 0]
  ELSE [kind |-> "ago", n |-> strptime(r.last_practiced) - now]

\* The text of the 'Last Practiced' cell: "Never", "Today" or "<n> day(s) ago".
last_practiced_text(r, now) ==
  IF r.last_practiced = None THEN [kind |-> "Never", n |-> 0]
  ELSE IF strptime(r.last_practiced) = now THEN [kind |-> "Today", n |-> 0]
  ELSE [kind |-> "ago", n |-> now - strptime(r.last_practiced)]

\* add_record_to_table: the row of one record; edit_row is the row_position
\* bound into the edit button.
add_record_to_table(r, row_position, now) ==
  [name |-> r.name,
   practice_count |-> IntToStr(r.practice_count),
   last_practiced |-> last_practiced_text(r, now),
   was_performed |-> IF get(r, "was_performed", FALSE) THEN Yes ELSE No,
   isSong |-> IF get(r, "isSong", FALSE) THEN Yes ELSE No,
   edit_row |-> row_position]

\* LastPracticedItem.__lt__.get_elapsed_days
get_elapsed_days(text) ==
  CASE text.kind = "Never" -> Infinity
    [] text.kind = "Today" -> 0
    [] OTHER -> text.n

\* item < item for the items of a column: LastPracticedItem.__lt__ in column 2,
\* QTableWidgetItem's comparison of the texts elsewhere; column 5 has no items.
item_lt(col, a, b) ==
  CASE col = 0 -> StrLt(a.name, b.name)
    [] col = 1 -> StrLt(a.practice_count, b.practice_count)
    [] col = 2 -> get_elapsed_days(a.last_practiced) < get_elapsed_days(b.last_practiced)
    [] col = 3 -> StrLt(a.was_performed, b.was_performed)
    [] col = 4 -> StrLt(a.isSong, b.isSong)
    [] OTHER -> FALSE

\* The table widget sorting its own rows by the sort indicator, which it does
\* when sorting is enabled and when a header section is clicked.
sort_rows(rows, col, ord) ==
  LET asc == [i \in 1..Len(rows), j \in 1..Len(rows) |-> item_lt(col, rows[i], rows[j])]
      desc == [i \in 1..Len(rows), j \in 1..Len(rows) |-> item_lt(col, rows[j], rows[i])]
  IN IF ord = "Descending" THEN StableSort(rows, desc) ELSE StableSort(rows, asc)

\* A save that writes nothing.
save_data_skipped(w) == [w EXCEPT !.steps = Append(@, "save")]

\* MainWindow.save_data
save_data(w) == [w EXCEPT !.file = json_dump(w.data), !.steps = Append(@, "save")]

\* MainWindow.populate_table
populate_table(w) ==
  LET all_records == sort_records(w.data, sort_column, sort_order, today)
      rows == [i \in 1..Len(all_records) |-> add_record_to_table(all_records[i], i, today)]
  IN [w EXCEPT !.displayed_records = [i \in 1..Len(all_records) |-> all_records[i].id],
               !.table_rows = sort_rows(rows, sort_column, sort_order),
               !.steps = Append(@, "render")]

\* The handler's result becomes the next state.
Commit(w, event) ==
  /\ data' = w.data
  /\ file' = w.file
  /\ displayed_records' = w.displayed_records
  /\ table_rows' = w.table_rows
  /\ steps' = <<event>> \o w.steps

Snapshot == [data |-> data, file |-> file]

----------------------------------------------------------------------------
\* The files the application can find at startup: none, an empty list, files
\* of earlier versions whose records lack one flag or both, a file it wrote
\* itself.
LegacyObject == [name |-> JString(<<97>>), practice_count |-> JNumber(1),
                 last_practiced |-> JString(strftime(0))]
LegacyPerformed == [name |-> JString(<<97>>), practice_count |-> JNumber(1),
                    last_practiced |-> JString(strftime(0)), was_performed |-> JBool(TRUE)]
LegacySong == [name |-> JString(<<66>>), practice_count |-> JNumber(0),
               last_practiced |-> JNull, isSong |-> JBool(TRUE)]
InitFiles ==
  {NoFile,
   [exists |-> TRUE, content |-> <<>>],
   [exists |-> TRUE, content |-> <<LegacyObject>>],
   [exists |-> TRUE, content |-> <<LegacyPerformed, LegacySong>>],
   json_dump(<<[id |-> 1, name |-> <<66>>, practice_count |-> 0, last_practiced |-> None,
                isSong |-> TRUE, was_performed |-> FALSE]>>)}

\* MainWindow.__init__
Init ==
  /\ file \in InitFiles
  /\ data = load_data(file)
  /\ sort_column = 0
  /\ sort_order = "Descending"
  /\ today = 0
  /\ LET all_records == sort_records(data, 0, "Descending", 0)
         rows == [i \in 1..Len(all_records) |-> add_record_to_table(all_records[i], i, 0)]
     IN /\ displayed_records = [i \in 1..Len(all_records) |-> all_records[i].id]
        /\ table_rows = sort_rows(rows, 0, "Descending")
  /\ pc = "main"
  /\ record = 0
  /\ clicked_row = 0
  /\ is_song_checkbox = FALSE
  /\ was_performed_checkbox = FALSE
  /\ steps = <<"__init__">>
  /\ opened = <<>>

----------------------------------------------------------------------------
\* The add dialog (MainWindow.show_add_dialog)

\* A new record that counts its creation as a session.
new_record_counted(d, name, isSong, was_performed) ==
  [id |-> CHOOSE i \in Ids : \A k \in 1..Len(d) : d[k].id # i,
   name |-> name,
   practice_count |-> 1,
   last_practiced |-> None,
   isSong |-> isSong,
   was_performed |-> was_performed]

\* The dict literal of on_add and add_record, as a new object.
new_record(d, name, isSong, was_performed) ==
  [id |-> CHOOSE i \in Ids : (\A k \in 1..Len(d) : d[k].id # i)
                             /\ \A j \in Ids : (\A k \in 1..Len(d) : d[k].id # j) => i <= j,
   name |-> name,
   practice_count |-> 0,
   last_practiced |-> None,
   isSong |-> isSong,
   was_performed |-> was_performed]

\* self.data.append(new_record)
append_record(w, name, isSong, was_performed) ==
  [w EXCEPT !.data = Append(@, new_record(@, name, isSong, was_performed)),
            !.steps = Append(@, "mutate")]

show_add_dialog ==
  /\ pc = "main"
  /\ pc' = "add"
  /\ is_song_checkbox' = TRUE
  /\ was_performed_checkbox' = FALSE
  /\ opened' = <<Snapshot>>
  /\ steps' = <<"show_add_dialog">>
  /\ UNCHANGED <<data, file, displayed_records, table_rows, sort_column, sort_order,
                 today, record, clicked_row>>

\* The user ticks or unticks a checkbox of the add dialog.
add_dialog_check ==
  /\ pc = "add"
  /\ \/ is_song_checkbox' = ~is_song_checkbox /\ UNCHANGED was_performed_checkbox
     \/ was_performed_checkbox' = ~was_performed_checkbox /\ UNCHANGED is_song_checkbox
  /\ steps' = <<"check">>
  /\ UNCHANGED <<data, file, displayed_records, table_rows, sort_column, sort_order,
                 today, pc, record, clicked_row, opened>>

\* show_add_dialog.on_add, with `text` in the name field
on_add(text) ==
  /\ pc = "add"
  /\ LET name == strip(text)
     IN IF name # <<>>
        THEN /\ Len(data) < MaxRecords
             /\ Commit([populate_table(save_data(
                          append_record(World, name, is_song_checkbox,
                                        was_performed_checkbox)))
                         EXCEPT !.steps = Append(@, "accept")], "on_add")
             /\ pc' = "main"
             /\ is_song_checkbox' = FALSE
             /\ was_performed_checkbox' = FALSE
             /\ opened' = <<>>
        ELSE /\ steps' = <<"on_add">>
             /\ UNCHANGED <<data, file, displayed_records, table_rows, pc,
                            is_song_checkbox, was_performed_checkbox, opened>>
  /\ UNCHANGED <<sort_column, sort_order, today, record, clicked_row>>

\* Cancel wired to the handler of Add, with what the name field holds.
add_cancel_adds == \E text \in NameInputs : on_add(text)

\* cancel_button.clicked -> dialog.reject
add_cancel ==
  /\ pc = "add"
  /\ pc' = "main"
  /\ is_song_checkbox' = FALSE
  /\ was_performed_checkbox' = FALSE
  /\ opened' = <<>>
  /\ steps' = <<"add_cancel">>
  /\ UNCHANGED <<data, file, displayed_records, table_rows, sort_column, sort_order,
                 today, record, clicked_row>>

----------------------------------------------------------------------------
\* MainWindow.reset_table: two questions, then the reset.

\* self.data = []
clear_data(w) == [w EXCEPT !.data = <<>>, !.steps = Append(@, "mutate")]

\* reset_table, up to the first question
reset_table ==
  /\ pc = "main"
  /\ pc' = "reset1"
  /\ opened' = <<Snapshot>>
  /\ steps' = <<"reset_table">>
  /\ UNCHANGED <<data, file, displayed_records, table_rows, sort_column, sort_order,
                 today, record, clicked_row, is_song_checkbox, was_performed_checkbox>>

\* The reset done on the first Yes.
reset_first_resets(reply) ==
  /\ pc = "reset1"
  /\ pc' = "main"
  /\ opened' = <<>>
  /\ IF reply = "Yes"
     THEN Commit(populate_table(save_data(clear_data(World))), "reset_first")
     ELSE /\ steps' = <<"reset_first", reply>>
          /\ UNCHANGED <<data, file, displayed_records, table_rows>>
  /\ UNCHANGED <<sort_column, sort_order, today, record, clicked_row,
                 is_song_checkbox, was_performed_checkbox>>

\* reset_table, from the first reply on
reset_first(reply) ==
  /\ pc = "reset1"
  /\ pc' = IF reply = "Yes" THEN "reset2" ELSE "main"
  /\ opened' = IF reply = "Yes" THEN opened ELSE <<>>
  /\ steps' = <<"reset_first", reply>>
  /\ UNCHANGED <<data, file, displayed_records, table_rows, sort_column, sort_order,
                 today, record, clicked_row, is_song_checkbox, was_performed_checkbox>>

\* reset_table, from the second reply on
reset_second(reply) ==
  /\ pc = "reset2"
  /\ pc' = "main"
  /\ opened' = <<>>
  /\ IF reply = "Yes"
     THEN Commit(populate_table(save_data(clear_data(World))), "reset_second")
     ELSE /\ steps' = <<"reset_second", reply>>
          /\ UNCHANGED <<data, file, displayed_records, table_rows>>
  /\ UNCHANGED <<sort_column, sort_order, today, record, clicked_row,
                 is_song_checkbox, was_performed_checkbox>>

----------------------------------------------------------------------------
\* A practice session

\* A session that leaves the date alone.
add_session_undated(w, id) ==
  [w EXCEPT !.data[IndexOf(w.data, id)] = [@ EXCEPT !.practice_count = @ + 1],
            !.steps = Append(@, "mutate")]

\* A session that sets the date and counts nothing.
add_session_uncounted(w, id) ==
  [w EXCEPT !.data[IndexOf(w.data, id)] = [@ EXCEPT !.last_practiced = strftime(today)],
            !.steps = Append(@, "mutate")]

\* record['practice_count'] += 1; record['last_practiced'] = now.strftime(...)
add_session(w, id) ==
  [w EXCEPT !.data[IndexOf(w.data, id)] =
              [@ EXCEPT !.practice_count = @ + 1, !.last_practiced = strftime(today)],
            !.steps = Append(@, "mutate")]

\* MainWindow.on_cell_clicked, up to the question of on_name_button_click;
\* rows and positions count from 1.
on_cell_clicked(row, column) ==
  /\ pc = "main"
  /\ row \in 1..Len(table_rows)
  /\ steps' = <<"on_cell_clicked">>
  /\ IF column = 0
     THEN /\ record' = displayed_records[row]
          /\ clicked_row' = row
          /\ pc' = "name_question"
          /\ opened' = <<Snapshot>>
     ELSE UNCHANGED <<record, clicked_row, pc, opened>>
  /\ UNCHANGED <<data, file, displayed_records, table_rows, sort_column, sort_order,
                 today, is_song_checkbox, was_performed_checkbox>>

\* MainWindow.on_name_button_click, from the reply on
on_name_button_click(reply) ==
  /\ pc = "name_question"
  /\ pc' = "main"
  /\ opened' = <<>>
  /\ record' = 0
  /\ IF reply = "Yes"
     THEN /\ RecordOf(data, record).practice_count < MaxCount
          /\ Commit(populate_table(save_data(add_session(World, record))),
                    "on_name_button_click")
     ELSE /\ steps' = <<"on_name_button_click", reply>>
          /\ UNCHANGED <<data, file, displayed_records, table_rows>>
  /\ clicked_row' = 0
  /\ UNCHANGED <<sort_column, sort_order, today, is_song_checkbox, was_performed_checkbox>>

----------------------------------------------------------------------------
\* The edit dialog (EditWindow)

\* MainWindow.on_edit_button_click for the button in table row `row`, then
\* show_edit_dialog and EditWindow.__init__
on_edit_button_click(row) ==
  /\ pc = "main"
  /\ row \in 1..Len(table_rows)
  /\ LET r == displayed_records[table_rows[row].edit_row]
     IN /\ record' = r
        /\ is_song_checkbox' = get(RecordOf(data, r), "isSong", TRUE)
        /\ was_performed_checkbox' = get(RecordOf(data, r), "was_performed", FALSE)
  /\ pc' = "edit"
  /\ opened' = <<Snapshot>>
  /\ steps' = <<"on_edit_button_click">>
  /\ UNCHANGED <<data, file, displayed_records, table_rows, sort_column, sort_order,
                 today, clicked_row>>

\* Both flags follow the checkbox that changed.
set_flag_both(w, id, field, value) ==
  [w EXCEPT !.data[IndexOf(w.data, id)] = [@ EXCEPT !.isSong = value, !.was_performed = value],
            !.steps = Append(@, "mutate")]

\* self.record[field] = checkbox.isChecked()
set_flag(w, id, field, value) ==
  [w EXCEPT !.data[IndexOf(w.data, id)] =
              IF field = "isSong" THEN [@ EXCEPT !.isSong = value]
              ELSE [@ EXCEPT !.was_performed = value],
            !.steps = Append(@, "mutate")]

\* EditWindow.toggle_is_song, on the checkbox changing state
toggle_is_song ==
  /\ pc = "edit"
  /\ is_song_checkbox' = ~is_song_checkbox
  /\ Commit(populate_table(save_data(set_flag(World, record, "isSong", ~is_song_checkbox))),
            "toggle_is_song")
  /\ UNCHANGED <<sort_column, sort_order, today, pc, record, clicked_row,
                 was_performed_checkbox, opened>>

\* EditWindow.toggle_was_performed, on the checkbox changing state
toggle_was_performed ==
  /\ pc = "edit"
  /\ was_performed_checkbox' = ~was_performed_checkbox
  /\ Commit(populate_table(save_data(
              set_flag(World, record, "was_performed", ~was_performed_checkbox))),
            "toggle_was_performed")
  /\ UNCHANGED <<sort_column, sort_order, today, pc, record, clicked_row,
                 is_song_checkbox, opened>>

\* Leaving a dialog that was opened from the edit dialog, or the edit dialog.
CloseEdit ==
  /\ pc' = "main"
  /\ record' = 0
  /\ is_song_checkbox' = FALSE
  /\ was_performed_checkbox' = FALSE
  /\ opened' = <<>>

\* EditWindow.on_edit_last_practiced, up to date_dialog.exec()
on_edit_last_practiced ==
  /\ pc = "edit"
  /\ pc' = "date"
  /\ opened' = Append(opened, Snapshot)
  /\ steps' = <<"on_edit_last_practiced">>
  /\ UNCHANGED <<data, file, displayed_records, table_rows, sort_column, sort_order,
                 today, record, clicked_row, is_song_checkbox, was_performed_checkbox>>

\* The date alone, whatever the count.
set_last_practiced_date_only(w, id, selected_date) ==
  [w EXCEPT !.data[IndexOf(w.data, id)] = [@ EXCEPT !.last_practiced = selected_date],
            !.steps = Append(@, "mutate")]

\* The date, and a count of 1 whatever the count was.
set_last_practiced_count_one(w, id, selected_date) ==
  [w EXCEPT !.data[IndexOf(w.data, id)] =
              [@ EXCEPT !.last_practiced = selected_date, !.practice_count = 1],
            !.steps = Append(@, "mutate")]

\* self.record['last_practiced'] = selected_date, and the count of a record
\* never practised becomes 1
set_last_practiced(w, id, selected_date) ==
  [w EXCEPT !.data[IndexOf(w.data, id)] =
              [@ EXCEPT !.last_practiced = selected_date,
                        !.practice_count = IF @ = 0 THEN 1 ELSE @],
            !.steps = Append(@, "mutate")]

\* on_edit_last_practiced.on_ok, with day `d` selected in the calendar
on_ok(d) ==
  /\ pc = "date"
  /\ Commit([populate_table(save_data(set_last_practiced(World, record, strftime(d))))
              EXCEPT !.steps = Append(@, "accept")], "on_ok")
  /\ CloseEdit
  /\ UNCHANGED <<sort_column, sort_order, today, clicked_row>>

\* on_edit_last_practiced.on_cancel
on_cancel ==
  /\ pc = "date"
  /\ pc' = "edit"
  /\ opened' = SubSeq(opened, 1, Len(opened) - 1)
  /\ steps' = <<"on_cancel">>
  /\ UNCHANGED <<data, file, displayed_records, table_rows, sort_column, sort_order,
                 today, record, clicked_row, is_song_checkbox, was_performed_checkbox>>

\* A button of the edit dialog that asks a question first.
AskFromEdit(question, event) ==
  /\ pc = "edit"
  /\ pc' = question
  /\ opened' = Append(opened, Snapshot)
  /\ steps' = <<event>>
  /\ UNCHANGED <<data, file, displayed_records, table_rows, sort_column, sort_order,
                 today, record, clicked_row, is_song_checkbox, was_performed_checkbox>>

\* The reply No: back to the edit dialog.
BackToEdit(event) ==
  /\ pc' = "edit"
  /\ opened' = SubSeq(opened, 1, Len(opened) - 1)
  /\ steps' = <<event, "No">>
  /\ UNCHANGED <<data, file, displayed_records, table_rows, sort_column, sort_order,
                 today, record, clicked_row, is_song_checkbox, was_performed_checkbox>>

\* EditWindow.on_add_practice_session, up to the question
on_add_practice_session == AskFromEdit("session_question", "on_add_practice_session")

\* EditWindow.on_add_practice_session, from the reply on
on_add_practice_session_reply(reply) ==
  /\ pc = "session_question"
  /\ IF reply = "Yes"
     THEN /\ RecordOf(data, record).practice_count < MaxCount
          /\ Commit([populate_table(save_data(add_session(World, record)))
                      EXCEPT !.steps = Append(@, "accept")], "on_add_practice_session")
          /\ CloseEdit
          /\ UNCHANGED <<sort_column, sort_order, today, clicked_row>>
     ELSE BackToEdit("on_add_practice_session")

\* self.app.data.remove(self.record): list.remove drops the first item that
\* is, or is equal to, its argument.
remove_record(w, id) ==
  LET d == w.data
      x == RecordOf(d, id)
      i == CHOOSE k \in 1..Len(d) : DictEq(d[k], x) /\ \A j \in 1..(k - 1) : ~DictEq(d[j], x)
  IN [w EXCEPT !.data = SubSeq(d, 1, i - 1) \o SubSeq(d, i + 1, Len(d)),
               !.steps = Append(@, "mutate")]

\* EditWindow.on_delete, up to the question
on_delete == AskFromEdit("delete_question", "on_delete")

\* EditWindow.on_delete, from the reply on
on_delete_reply(reply) ==
  /\ pc = "delete_question"
  /\ IF reply = "Yes"
     THEN /\ Commit([populate_table(save_data(remove_record(World, record)))
                      EXCEPT !.steps = Append(@, "accept")], "on_delete")
          /\ CloseEdit
          /\ UNCHANGED <<sort_column, sort_order, today, clicked_row>>
     ELSE BackToEdit("on_delete")

\* The user closes the edit dialog.
edit_close ==
  /\ pc = "edit"
  /\ CloseEdit
  /\ steps' = <<"edit_close">>
  /\ UNCHANGED <<data, file, displayed_records, table_rows, sort_column, sort_order,
                 today, clicked_row>>

----------------------------------------------------------------------------
\* The table header and the clock

\* A click on header section `section`: the indicator flips on the sorted
\* column and turns ascending on another, and the widget sorts its rows;
\* no handler of the application runs.
header_click(section) ==
  /\ pc = "main"
  /\ sort_column' = section
  /\ sort_order' = IF section = sort_column /\ sort_order = "Ascending"
                   THEN "Descending" ELSE "Ascending"
  /\ table_rows' = sort_rows(table_rows, sort_column', sort_order')
  /\ steps' = <<"header_click">>
  /\ UNCHANGED <<data, file, displayed_records, today, pc, record, clicked_row,
                 is_song_checkbox, was_performed_checkbox, opened>>

\* Midnight passes. No handler reads the clock before a dialog is answered, so
\* a midnight that passes while a dialog is open is taken before it opened.
Tick ==
  /\ pc = "main"
  /\ today < MaxDay
  /\ today' = today + 1
  /\ UNCHANGED <<data, file, displayed_records, table_rows, sort_column, sort_order,
                 pc, record, clicked_row, is_song_checkbox, was_performed_checkbox,
                 steps, opened>>

Replies == {"Yes", "No"}

Next ==
  \/ show_add_dialog
  \/ add_dialog_check
  \/ \E text \in NameInputs : on_add(text)
  \/ add_cancel
  \/ reset_table
  \/ \E reply \in Replies : reset_first(reply)
  \/ \E reply \in Replies : reset_second(reply)
  \/ \E row \in 1..MaxRecords, column \in 0..1 : on_cell_clicked(row, column)
  \/ \E reply \in Replies : on_name_button_click(reply)
  \/ \E row \in 1..MaxRecords : on_edit_button_click(row)
  \/ toggle_is_song
  \/ toggle_was_performed
  \/ on_edit_last_practiced
  \/ \E d \in Days : on_ok(d)
  \/ on_cancel
  \/ on_add_practice_session
  \/ \E reply \in Replies : on_add_practice_session_reply(reply)
  \/ on_delete
  \/ \E reply \in Replies : on_delete_reply(reply)
  \/ edit_close
  \/ Tick

\* The application with a user who never clicks a column header: a click on
\* a header changes the rows of the table and nothing else.
Spec == Init /\ [][Next]_vars

\* The application with the column headers, on one day, with the flags a
\* record was created with.
NextTable ==
  \/ show_add_dialog
  \/ \E text \in NameInputs : on_add(text)
  \/ add_cancel
  \/ reset_table
  \/ \E reply \in Replies : reset_first(reply)
  \/ \E reply \in Replies : reset_second(reply)
  \/ \E row \in 1..MaxRecords, column \in 0..1 : on_cell_clicked(row, column)
  \/ \E reply \in Replies : on_name_button_click(reply)
  \/ \E row \in 1..MaxRecords : on_edit_button_click(row)
  \/ on_edit_last_practiced
  \/ \E d \in Days : on_ok(d)
  \/ on_cancel
  \/ on_add_practice_session
  \/ \E reply \in Replies : on_add_practice_session_reply(reply)
  \/ on_delete
  \/ \E reply \in Replies : on_delete_reply(reply)
  \/ edit_close
  \/ \E section \in 0..5 : header_click(section)

SpecTable == Init /\ [][NextTable]_vars

----------------------------------------------------------------------------
\* The repository behind the window: started on any file of records, filled
\* through add_record and the add dialog, closed and started again.

\* What a file can hold for a record: a record never practised, one practised
\* once, one practised the most and the latest, each flag present or not.
StoredCores ==
  {[name |-> JString(<<97>>), practice_count |-> JNumber(0), last_practiced |-> JNull],
   [name |-> JString(<<66>>), practice_count |-> JNumber(1),
    last_practiced |-> JString(strftime(0))],
   [name |-> JString(<<97>>), practice_count |-> JNumber(MaxCount),
    last_practiced |-> JString(strftime(MaxDay))]}
StoredFlags == UNION {[D -> BOOLEAN] : D \in SUBSET {"isSong", "was_performed"}}
StoredObjects ==
  {[k \in DOMAIN core \cup DOMAIN flags |->
      IF k \in DOMAIN flags THEN JBool(flags[k]) ELSE core[k]] :
     core \in StoredCores, flags \in StoredFlags}
StoredFiles ==
  {NoFile} \cup {[exists |-> TRUE, content |-> c] :
                   c \in UNION {[1..n -> StoredObjects] : n \in 0..MaxRecords}}

\* MainWindow.__init__ on any of these files
InitRepository ==
  /\ file \in StoredFiles
  /\ data = load_data(file)
  /\ sort_column = 0
  /\ sort_order = "Descending"
  /\ today = 0
  /\ LET all_records == sort_records(data, 0, "Descending", 0)
         rows == [i \in 1..Len(all_records) |-> add_record_to_table(all_records[i], i, 0)]
     IN /\ displayed_records = [i \in 1..Len(all_records) |-> all_records[i].id]
        /\ table_rows = sort_rows(rows, 0, "Descending")
  /\ pc = "main"
  /\ record = 0
  /\ clicked_row = 0
  /\ is_song_checkbox = FALSE
  /\ was_performed_checkbox = FALSE
  /\ steps = <<"__init__">>
  /\ opened = <<>>

\* The window is closed and the application started again: MainWindow.__init__
\* loads the file and fills a new table, sorted as a new table is.
restart ==
  /\ pc = "main"
  /\ data' = load_data(file)
  /\ sort_column' = 0
  /\ sort_order' = "Descending"
  /\ LET all_records == sort_records(data', 0, "Descending", today)
         rows == [i \in 1..Len(all_records) |->
                    add_record_to_table(all_records[i], i, today)]
     IN /\ displayed_records' = [i \in 1..Len(all_records) |-> all_records[i].id]
        /\ table_rows' = sort_rows(rows, 0, "Descending")
  /\ steps' = <<"__init__">>
  /\ UNCHANGED <<file, today, pc, record, clicked_row, is_song_checkbox,
                 was_performed_checkbox, opened>>

\* The keyword arguments a call of add_record can pass.
KwArgs == UNION {[D -> BOOLEAN] : D \in SUBSET {"isSong", "was_performed"}}

\* MainWindow.add_record(name, **kwargs): def add_record(self, name,
\* isSong=False, was_performed=False)
add_record(name, kwargs) ==
  /\ pc = "main"
  /\ Len(data) < MaxRecords
  /\ LET isSong == get(kwargs, "isSong", FALSE)
         was_performed == get(kwargs, "was_performed", FALSE)
     IN Commit(populate_table(save_data(append_record(World, name, isSong, was_performed))),
               "add_record")
  /\ UNCHANGED <<sort_column, sort_order, today, pc, record, clicked_row,
                 is_song_checkbox, was_performed_checkbox, opened>>

NextRepository ==
  \/ \E name \in NameInputs, kwargs \in KwArgs : add_record(name, kwargs)
  \/ show_add_dialog
  \/ add_dialog_check
  \/ \E text \in NameInputs : on_add(text)
  \/ add_cancel
  \/ restart

SpecRepository == InitRepository /\ [][NextRepository]_vars

TypeOK ==
  /\ Len(data) <= MaxRecords
  /\ today \in Days
  /\ Len(displayed_records) = Len(data)

----------------------------------------------------------------------------
\* Properties

Range(f) == {f[i] : i \in DOMAIN f}
RecordIds(d) == {d[i].id : i \in 1..Len(d)}
Mutated(log) == "mutate" \in Range(log)
AcceptedAdd == <<"on_add", "mutate", "save", "render", "accept">>
IsBlank(text) == \A i \in 1..Len(text) : IsSpace(text[i])
Trimmed(name, text) ==
  /\ name # <<>>
  /\ ~IsSpace(name[1])
  /\ ~IsSpace(name[Len(name)])
  /\ \E k \in 0..Len(text) :
       /\ k + Len(name) <= Len(text)
       /\ SubSeq(text, k + 1, k + Len(name)) = name
       /\ IsBlank(SubSeq(text, 1, k))
       /\ IsBlank(SubSeq(text, k + Len(name) + 1, Len(text)))

\* C1: an add with a name that is not empty once trimmed makes the list one
\* record longer; the new record is the last one, carries the trimmed name, a
\* practice_count of 0 and no last_practiced; every record held before is
\* still there, unchanged.
C1_AddAppendsOneFreshRecord ==
  [][\A text \in NameInputs :
       (~IsBlank(text) /\ on_add(text)) =>
         /\ Len(data') = Len(data) + 1
         /\ Trimmed(data'[Len(data')].name, text)
         /\ data'[Len(data')].practice_count = 0
         /\ data'[Len(data')].last_practiced = None
         /\ data'[Len(data')].id \notin RecordIds(data)
         /\ \A i \in 1..Len(data) : \E j \in 1..Len(data') : data'[j] = data[i]]_vars

C1_Witness ==
  /\ pc = "main"
  /\ steps = AcceptedAdd
  /\ Len(data) = 2
  /\ data[1].practice_count = 2
  /\ data[2].name = <<97>>
  /\ data[2].practice_count = 0
  /\ data[2].last_practiced = None

\* C2: an add with a name that is empty or all whitespace changes neither the
\* list nor the file, and the add dialog stays open.
C2_BlankNameRejected ==
  [][\A text \in NameInputs :
       (IsBlank(text) /\ on_add(text)) =>
         /\ data' = data
         /\ file' = file
         /\ pc' = "add"]_vars

C2_Witness ==
  /\ pc = "add"
  /\ steps = <<"on_add">>
  /\ Len(data) = 1
  /\ opened = <<[data |-> data, file |-> file]>>

\* C3: a confirmed practice session, from the name click or from the edit
\* dialog, adds exactly 1 to the practice_count of its record and sets its
\* last_practiced to the current date.
C3_SessionAddsOne ==
  [][(on_name_button_click("Yes") \/ on_add_practice_session_reply("Yes")) =>
       LET i == IndexOf(data, record)
       IN /\ Len(data') = Len(data)
          /\ data'[i].id = record
          /\ data'[i].practice_count = data[i].practice_count + 1
          /\ data'[i].last_practiced # None
          /\ strptime(data'[i].last_practiced) = today]_vars

\* The second session of a day, on a record first practised the day before.
C3_Witness ==
  /\ pc = "main"
  /\ steps = <<"on_add_practice_session", "mutate", "save", "render", "accept">>
  /\ today = 1
  /\ \E i \in 1..Len(data) :
       /\ data[i].practice_count = 2
       /\ data[i].last_practiced = strftime(1)

\* C4: OK in the date picker with day d selected sets last_practiced to d; a
\* practice_count of 0 becomes 1 and any other practice_count stays.
C4_DatePickerSetsDate ==
  [][\A d \in Days :
       on_ok(d) =>
         LET i == IndexOf(data, record)
         IN /\ data'[i].id = record
            /\ data'[i].last_practiced # None
            /\ strptime(data'[i].last_practiced) = d
            /\ (data[i].practice_count = 0 => data'[i].practice_count = 1)
            /\ (data[i].practice_count > 0 =>
                  data'[i].practice_count = data[i].practice_count)]_vars

\* A record with two sessions carries tomorrow's date, which only the date
\* picker can give it.
C4_Witness ==
  /\ pc = "main"
  /\ steps = <<"on_ok", "mutate", "save", "render", "accept">>
  /\ today = 0
  /\ \E i \in 1..Len(data) :
       /\ data[i].practice_count = 2
       /\ data[i].last_practiced = strftime(1)

\* C5: the practice_count of a record is never negative, and no step lowers
\* the practice_count of a record that is still in the list after the step.
C5_CountNeverDecreases ==
  [][/\ \A j \in 1..Len(data') : data'[j].practice_count >= 0
     /\ \A i \in 1..Len(data) : \A j \in 1..Len(data') :
          data'[j].id = data[i].id =>
            data'[j].practice_count >= data[i].practice_count]_vars

\* After a delete, the record that stays has been practised twice.
C5_Witness ==
  /\ pc = "main"
  /\ steps = <<"on_delete", "mutate", "save", "render", "accept">>
  /\ Len(data) = 1
  /\ data[1].practice_count = 2

\* C6: at rest, loading the file gives the records of the list, field for
\* field and in order; the displayed records are the records of the list,
\* each once; and a handler that mutated did so once, then saved once, then
\* rendered once, in that order.
C6_WriteThroughAndRender ==
  /\ Len(load_data(file)) = Len(data)
  /\ \A i \in 1..Len(data) : DictEq(load_data(file)[i], data[i])
  /\ (data # <<>> => file.exists)
  /\ Len(displayed_records) = Len(data)
  /\ Range(displayed_records) = RecordIds(data)
  /\ Cardinality(RecordIds(data)) = Len(data)
  /\ (Mutated(steps) =>
        /\ Len(steps) >= 4
        /\ SubSeq(steps, 2, 4) = <<"mutate", "save", "render">>
        /\ \A k \in 5..Len(steps) : steps[k] = "accept")

C6_Witness ==
  /\ pc = "edit"
  /\ steps = <<"toggle_was_performed", "mutate", "save", "render">>
  /\ Len(data) = 2
  /\ displayed_records = <<2, 1>>
  /\ RecordOf(data, record).was_performed

\* The steps that abandon a dialog or a question.
AbandonInner ==
  \/ add_cancel
  \/ on_cancel
  \/ reset_first("No")
  \/ reset_second("No")
  \/ on_name_button_click("No")
  \/ on_add_practice_session_reply("No")
  \/ on_delete_reply("No")
Abandon == AbandonInner \/ edit_close

AsOpened == /\ data' = opened[Len(opened)].data
            /\ file' = opened[Len(opened)].file

\* C7 as stated: whatever is abandoned, the list and the file are afterwards
\* as they were when that dialog or question opened.
C7_AbandonRestoresOpening == [][Abandon => AsOpened]_vars

\* C7 as amended: abandoning changes neither the list nor the file; after
\* Cancel or No they are as they were when the dialog or question opened;
\* after closing the edit dialog they differ from what they were when it
\* opened by at most the two flags of the edited record, which the checkboxes
\* of the dialog had already changed and saved.
C7_AbandonChangesNothing ==
  [][/\ Abandon => UNCHANGED <<data, file>>
     /\ AbandonInner => AsOpened
     /\ edit_close =>
          /\ Len(data) = Len(opened[1].data)
          /\ \A i \in 1..Len(data) :
               IF data[i].id = record
               THEN [data[i] EXCEPT !.isSong = TRUE, !.was_performed = TRUE]
                    = [opened[1].data[i] EXCEPT !.isSong = TRUE, !.was_performed = TRUE]
               ELSE data[i] = opened[1].data[i]]_vars

\* The edit dialog was closed; its record is no longer flagged as a song,
\* which only a checkbox of that dialog can have done.
C7_Witness ==
  /\ pc = "main"
  /\ steps = <<"edit_close">>
  /\ Len(data) = 1
  /\ ~data[1].isSong
  /\ data[1].was_performed
  /\ data[1].name = <<66>>

\* C8: the second Yes of 'Reset Table' empties the list, whatever its size,
\* and leaves a file holding an empty list; opening the first question,
\* answering it, and answering No to the second change neither the list nor
\* the file; and the second question is asked only after a Yes to the first.
C8_ResetAfterTwoYes ==
  [][/\ reset_second("Yes") =>
          /\ data' = <<>>
          /\ file'.exists
          /\ file'.content = <<>>
          /\ load_data(file') = <<>>
     /\ (reset_table \/ (\E reply \in Replies : reset_first(reply)) \/ reset_second("No")) =>
          UNCHANGED <<data, file>>
     /\ (pc # "reset2" /\ pc' = "reset2") => reset_first("Yes")
     /\ (pc = "reset2" /\ data' # data) => reset_second("Yes")]_vars

C8_Witness ==
  /\ pc = "main"
  /\ steps = <<"reset_second", "mutate", "save", "render">>
  /\ data = <<>>
  /\ file = [exists |-> TRUE, content |-> <<>>]
  /\ table_rows = <<>>

\* C9 as stated: a confirmed delete removes the record the edit dialog was
\* opened on and no other: the list is one shorter, every other record stays
\* as it was, and the file holds the result.
C9_DeleteRemovesEditedRecord ==
  [][on_delete_reply("Yes") =>
       /\ Len(data') = Len(data) - 1
       /\ RecordIds(data') = RecordIds(data) \ {record}
       /\ \A i \in 1..Len(data) :
            data[i].id # record => \E j \in 1..Len(data') : data'[j] = data[i]
       /\ file' = json_dump(data')]_vars

\* C10 as stated: a confirmed name click changes the record whose name the
\* clicked row shows, and no other record.
C10_NameClickHitsShownRecord ==
  [][on_name_button_click("Yes") =>
       \A i \in 1..Len(data) :
         data'[i] # data[i] => data[i].name = table_rows[clicked_row].name]_vars

\* C12: every record of the list has the five fields, a count that is a
\* natural number and flags that are booleans, at startup and after every
\* handler; at startup a flag the file's record lacks is False in the list,
\* the flags the file gives are kept, and with no file the list is empty.
C12_AllFieldsPopulated ==
  /\ \A i \in 1..Len(data) :
       /\ DOMAIN data[i] = Keys
       /\ data[i].practice_count \in Nat
       /\ data[i].isSong \in BOOLEAN
       /\ data[i].was_performed \in BOOLEAN
  /\ steps = <<"__init__">> =>
       /\ (~file.exists => data = <<>>)
       /\ file.exists =>
            /\ Len(data) = Len(file.content)
            /\ \A i \in 1..Len(data) :
                 /\ data[i].isSong = ("isSong" \in DOMAIN file.content[i]
                                        /\ file.content[i].isSong = JBool(TRUE))
                 /\ data[i].was_performed = ("was_performed" \in DOMAIN file.content[i]
                                               /\ file.content[i].was_performed = JBool(TRUE))

\* Started on a file whose first record has no isSong and whose second has
\* no was_performed.
C12_Witness ==
  /\ steps = <<"__init__">>
  /\ file.exists
  /\ Len(data) = 2
  /\ "isSong" \notin DOMAIN file.content[1]
  /\ "was_performed" \notin DOMAIN file.content[2]
  /\ ~data[1].isSong /\ data[1].was_performed
  /\ data[2].isSong /\ ~data[2].was_performed

SameRecords(d, e) ==
  /\ Len(d) = Len(e)
  /\ \A i \in 1..Len(d) : \A k \in Fields : d[i][k] = e[i][k]

\* C11: saving a list of records and loading the file gives the records of
\* the list, in the same order and equal field for field, whatever the list:
\* empty, one record, several, with or without dates; and starting the
\* application again gives the list it had when it was closed.
C11_RoundTrip ==
  [][/\ SameRecords(load_data(json_dump(data')), data')
     /\ restart => SameRecords(data', data)]_vars

\* Started again on a list of a record never practised and a record with a
\* date, the second added by add_record with the name " a ".
C11_Witness ==
  /\ steps = <<"__init__">>
  /\ Len(data) = 2
  /\ data[1].last_practiced = None
  /\ data[2].name = <<32, 97, 32>>
  /\ file = json_dump(data)

\* C13 as stated: a record added with a name only, by add_record without
\* keyword arguments or by the add dialog with its checkboxes as they were
\* when it opened, is a song that was not performed.
C13_NameOnlyAddIsSong ==
  [][\A name \in NameInputs :
       (\/ add_record(name, <<>>)
        \/ (on_add(name) /\ ~IsBlank(name) /\ is_song_checkbox /\ ~was_performed_checkbox)) =>
         /\ Len(data') = Len(data) + 1
         /\ data'[Len(data')].isSong
         /\ ~data'[Len(data')].was_performed]_vars

\* The record a row of the table was filled from.
RowRecord(d, shown, row) == RecordOf(d, shown[row.edit_row])

\* Every row carries the label of its record for the day `now`.
LabelsFor(d, shown, rows, now) ==
  /\ Len(rows) = Len(d)
  /\ \A k \in 1..Len(rows) :
       LET r == RowRecord(d, shown, rows[k])
           label == rows[k].last_practiced
       IN IF r.last_practiced = None THEN label.kind = "Never"
          ELSE IF r.last_practiced = strftime(now) THEN label.kind = "Today"
          ELSE /\ label.kind = "ago"
               /\ \E day \in Days : /\ r.last_practiced = strftime(day)
                                     /\ label.n = now - day

\* C14: when the table is filled, at startup and by every handler that
\* renders, the 'Last Practiced' label of each record is "Never" when it has
\* no date, "Today" when its date is the current date, and otherwise
\* "N day(s) ago" with N the current date minus the stored date in days, for
\* dates set by a session and dates picked in the calendar, past or future.
C14_LabelAtRender ==
  /\ LabelsFor(data, displayed_records, table_rows, today)
  /\ [][(today' = today /\ "render" \in Range(steps')) =>
          LabelsFor(data', displayed_records', table_rows', today')]_vars

\* On the second day, a render shows a record practised the day before next
\* to a record never practised.
C14_Witness ==
  /\ today = 1
  /\ "render" \in Range(steps)
  /\ \E k \in 1..Len(table_rows) : table_rows[k].last_practiced = [kind |-> "ago", n |-> 1]
  /\ \E k \in 1..Len(table_rows) : table_rows[k].last_practiced.kind = "Never"
  /\ \E i \in 1..Len(data) : data[i].last_practiced = strftime(0)

\* C15: in every state, a record has a practice_count of 0 exactly when it
\* has no last_practiced date. It holds of the empty list and of every file
\* the application starts on here, and every add, toggle, date, session,
\* delete and reset keeps it.
C15_CountZeroIffNoDate ==
  \A i \in 1..Len(data) :
    (data[i].practice_count = 0) <=> (data[i].last_practiced = None)

\* A date picked for a record never practised, next to a record still never
\* practised.
C15_Witness ==
  /\ pc = "main"
  /\ steps = <<"on_ok", "mutate", "save", "render", "accept">>
  /\ Len(data) = 2
  /\ \E i, j \in 1..2 :
       /\ data[i].practice_count = 1
       /\ data[i].last_practiced = strftime(1)
       /\ data[j].practice_count = 0
       /\ data[j].last_practiced = None

\* The list after the step has the records of the list before it, in place,
\* and they differ at most in the keys `changed` of the record at position i.
Frame(i, changed) ==
  /\ Len(data') = Len(data)
  /\ \A j \in 1..Len(data) :
       IF j = i
       THEN \A k \in Keys \ changed : data'[j][k] = data[j][k]
       ELSE data'[j] = data[j]

\* C16: a checkbox of the edit dialog flips its flag of the edited record
\* and changes nothing else; a confirmed practice session and a picked date
\* change at most practice_count and last_practiced of their record; in
\* each case the list keeps its length and every other record all its fields.
C16_SingleRecordFrame ==
  [][LET i == IndexOf(data, record)
     IN /\ toggle_is_song =>
             /\ Frame(i, {"isSong"})
             /\ data'[i].isSong = ~data[i].isSong
        /\ toggle_was_performed =>
             /\ Frame(i, {"was_performed"})
             /\ data'[i].was_performed = ~data[i].was_performed
        /\ (\/ on_name_button_click("Yes")
            \/ on_add_practice_session_reply("Yes")
            \/ \E d \in Days : on_ok(d)) =>
             Frame(i, {"practice_count", "last_practiced"})]_vars

\* 'Is Song' unticked on the first of two records, one practised twice and
\* performed, the other still a song.
C16_Witness ==
  /\ pc = "edit"
  /\ steps = <<"toggle_is_song", "mutate", "save", "render">>
  /\ Len(data) = 2
  /\ record = data[1].id
  /\ ~data[1].isSong
  /\ data[1].was_performed
  /\ data[1].practice_count = 2
  /\ data[2].isSong

====
